---- MODULE Spec2Model ----
(***************************************************************************)
(* A model of webpage_screenshot.py: the capture pipeline of WebScreenshot *)
(* (capture, capture_full, _load_page), the scroll loop of                 *)
(* _trigger_lazy_load and the content extraction of _extract_content.      *)
(*                                                                         *)
(* One run of capture or capture_full is a sequential process; pc is its   *)
(* position.  Every call into the browser library is an input: it returns  *)
(* a value drawn from a bounded set or raises.                             *)
(***************************************************************************)
EXTENDS Integers, Sequences, FiniteSets, TLC

\* default of the max_scrolls parameter; _load_page never overrides it
max_scrolls == 50

\* largest value document.body.scrollHeight returns in the model
MaxHeight == 52
\* largest viewport height in the model
MaxViewport == 2

Heights == 0..MaxHeight
ViewportHeights == 1..MaxViewport
WaitTimes == {0, 3}
ScrollDelays == {-1, 0, 1}
Ops == {"capture", "capture_full"}

----------------------------------------------------------------------------
(* The page as _extract_content sees it.  An attribute is <<>> when the   *)
(* element does not carry it (get_attribute returns None) and <<v>> when   *)
(* it carries the string v.  A text is a sequence of characters, each a    *)
(* Unicode code point: 65 is 'A', 66 is 'B', 32 is the space.              *)

\* largest number of img elements on a page of the model
MaxImgs == 2
\* largest number of meta elements on a page of the model
MaxMetas == 2
\* largest number of heading elements on a page of the model
MaxHeads == 2

SeqsUpTo(S, n) == UNION {[1..k -> S] : k \in 0..n}

\* img elements; raises names the attribute whose read raises
ImgElems ==
    {[src |-> s, alt |-> a, width |-> wh[1], height |-> wh[2], raises |-> "none"] :
        s \in {<<>>, <<"">>, <<"a.png">>, <<"b.png">>},
        a \in {<<>>, <<"logo">>},
        wh \in {<< <<>>, <<>> >>, << <<"100">>, <<"50">> >>}}
    \cup {[src |-> <<"a.png">>, alt |-> <<"logo">>, width |-> <<"100">>,
           height |-> <<"50">>, raises |-> r] : r \in {"src", "alt", "width", "height"}}
    \cup {[src |-> <<>>, alt |-> <<"logo">>, width |-> <<>>, height |-> <<>>,
           raises |-> "alt"]}

\* meta elements; raises names the attribute whose read raises
MetaElems ==
    {[name |-> <<n>>, property |-> <<>>, content |-> c, raises |-> "none"] :
        n \in {"description", "keywords", "author", "viewport", "robots"},
        c \in {<<>>, <<"">>, <<"Y">>}}
    \cup {[name |-> <<>>, property |-> <<q>>, content |-> c, raises |-> "none"] :
        q \in {"og:title", "og:image"}, c \in {<<"">>, <<"X">>, <<"Z">>}}
    \cup {[name |-> <<>>, property |-> <<q>>, content |-> <<"X">>, raises |-> "none"] :
        q \in {"og:description", "og:", "og", "fb:og:title"}}
    \cup {[name |-> <<>>, property |-> <<"og:title">>, content |-> <<>>, raises |-> "none"],
          [name |-> <<>>, property |-> <<"article:author">>, content |-> <<"X">>, raises |-> "none"],
          [name |-> <<"description">>, property |-> <<>>, content |-> <<"Y">>, raises |-> "content"],
          [name |-> <<>>, property |-> <<"og:title">>, content |-> <<"X">>, raises |-> "property"],
          [name |-> <<>>, property |-> <<"og:image">>, content |-> <<"X">>, raises |-> "content"]}

\* heading elements h1..h6; raises says that inner_text() raises
HeadElems ==
    {[level |-> l, text |-> t, raises |-> FALSE] :
        l \in 1..6, t \in {<<65>>, <<32>>, <<32, 66, 32>>}}
    \cup {[level |-> 1, text |-> t, raises |-> FALSE] :
            t \in {<<>>, <<65, 32, 66>>, <<13, 65>>, <<12>>, <<160, 66>>, <<8203>>}}
    \cup {[level |-> 1, text |-> <<65>>, raises |-> TRUE],
          [level |-> 2, text |-> <<65>>, raises |-> TRUE]}

\* the page-level reads of _extract_content, in the order the code issues them
PageReads == <<"title", "body", "content", "og", "img",
               "h1", "h2", "h3", "h4", "h5", "h6">>

NoFault == [at |-> "none", kind |-> "none"]
\* the page-level read that raises, if any: any of them with an error, and
\* inner_text('body'), which waits for its selector, also with a timeout
Faults ==
    {NoFault}
    \cup {[at |-> PageReads[i], kind |-> "error"] : i \in 1..Len(PageReads)}
    \cup {[at |-> "body", kind |-> "timeout"]}

meta_names == <<"description", "keywords", "author", "viewport">>
MetaNameSet == {meta_names[i] : i \in 1..Len(meta_names)}

Page(metas, nameFaults, imgs, heads, fault) ==
    [metas |-> metas, nameFaults |-> nameFaults, imgs |-> imgs, heads |-> heads,
     fault |-> fault]

EmptyDom == Page(<<>>, {}, <<>>, <<>>, NoFault)

\* one page of each kind of content, one of its elements unreadable
SampleDom ==
    Page(<< [name |-> <<"description">>, property |-> <<>>, content |-> <<"Y">>, raises |-> "none"],
            [name |-> <<>>, property |-> <<"og:title">>, content |-> <<"X">>, raises |-> "none"] >>,
         {"keywords"},
         << [src |-> <<"a.png">>, alt |-> <<>>, width |-> <<>>, height |-> <<>>, raises |-> "none"],
            [src |-> <<"a.png">>, alt |-> <<"logo">>, width |-> <<"100">>, height |-> <<"50">>, raises |-> "alt"] >>,
         << [level |-> 1, text |-> <<32, 66, 32>>, raises |-> FALSE],
            [level |-> 1, text |-> <<65>>, raises |-> TRUE] >>,
         NoFault)

\* pages of the whole-pipeline specification
PipelineDoms ==
    {EmptyDom, SampleDom}
    \cup {Page(<<>>, {}, <<>>, <<>>, f) :
            f \in {[at |-> "body", kind |-> "timeout"], [at |-> "img", kind |-> "error"]}}

\* pages of the extraction specification that vary one kind of content and
\* share the page-level fault f
ContentDoms(f) ==
    {Page(<<>>, {}, imgs, <<>>, f) : imgs \in SeqsUpTo(ImgElems, MaxImgs)}
    \cup {Page(metas, {}, <<>>, <<>>, f) : metas \in SeqsUpTo(MetaElems, MaxMetas)}
    \cup {Page(<<>>, {}, <<>>, heads, f) : heads \in SeqsUpTo(HeadElems, MaxHeads)}

\* pages of the extraction specification that vary the failing reads
FaultDoms ==
    {Page(SampleDom.metas, nf, SampleDom.imgs, SampleDom.heads, f) :
        nf \in SUBSET MetaNameSet, f \in Faults}

----------------------------------------------------------------------------
(* _extract_images                                                         *)

\* x or ''
OrEmpty(a) == IF a = <<>> THEN "" ELSE a[1]

\* the truth value of an attribute read: None and '' are false
Truthy(a) == a # <<>> /\ a[1] # ""

ImageInfoOf(img) ==
    [src |-> OrEmpty(img.src), alt |-> OrEmpty(img.alt),
     width |-> OrEmpty(img.width), height |-> OrEmpty(img.height)]

\* a loop that appends every image
KeepsImage_Always(src) == TRUE

\* the condition under which the loop body appends the image: if src
KeepsImage(src) == src # ""

\* one pass of the for loop of _extract_images: try ... except Exception: pass
ImgStep(acc, img) ==
    IF img.raises = "src" THEN acc
    ELSE IF ~KeepsImage(OrEmpty(img.src)) THEN acc
    ELSE IF img.raises # "none" THEN acc
    ELSE Append(acc, ImageInfoOf(img))

\* a loop inside one try: the first unreadable image ends it
RECURSIVE ImagesFrom_StopAtFailure(_, _)
ImagesFrom_StopAtFailure(elems, acc) ==
    IF elems = <<>> THEN acc
    ELSE IF Head(elems).raises # "none" THEN acc
    ELSE ImagesFrom_StopAtFailure(Tail(elems), ImgStep(acc, Head(elems)))

\* the for loop of _extract_images
RECURSIVE ImagesFrom(_, _)
ImagesFrom(elems, acc) ==
    IF elems = <<>> THEN acc
    ELSE ImagesFrom(Tail(elems), ImgStep(acc, Head(elems)))

\* _extract_images once query_selector_all('img') has returned
ExtractImagesOf(d) == ImagesFrom(d.imgs, <<>>)

----------------------------------------------------------------------------
(* _extract_meta                                                           *)

\* an assignment that keeps the value a key already has
Put_KeepsFirst(m, k, v) ==
    IF k \in {kv[1] : kv \in m} THEN m ELSE m \cup {<<k, v>>}

\* meta[k] = v
Put(m, k, v) == {kv \in m : kv[1] # k} \cup {<<k, v>>}

Keys(m) == {kv[1] : kv \in m}

\* page.query_selector(f'meta[name="{name}"]'): the index of the first match, 0 for None
RECURSIVE FirstNamed(_, _, _)
FirstNamed(metas, name, i) ==
    IF i > Len(metas) THEN 0
    ELSE IF metas[i].name = <<name>> THEN i
    ELSE FirstNamed(metas, name, i + 1)

\* one pass of the loop over meta_names: try ... except Exception: pass
MetaNameStep(acc, d, name) ==
    IF name \in d.nameFaults THEN acc
    ELSE LET i == FirstNamed(d.metas, name, 1) IN
         IF i = 0 THEN acc
         ELSE IF d.metas[i].raises = "content" THEN acc
         ELSE IF Truthy(d.metas[i].content)
              THEN Put(acc, name, d.metas[i].content[1])
              ELSE acc

RECURSIVE MetaNamesFrom(_, _, _)
MetaNamesFrom(d, i, acc) ==
    IF i > Len(meta_names) THEN acc
    ELSE MetaNamesFrom(d, i + 1, MetaNameStep(acc, d, meta_names[i]))

\* the selector meta[property^="og:"], which the browser evaluates: the
\* value of the property attribute begins with og:
IsOg(q) == Len(q) >= 3 /\ SubSeq(q, 1, 3) = "og:"

\* page.query_selector_all('meta[property^="og:"]')
OgTags(metas) == SelectSeq(metas, LAMBDA e : e.property # <<>> /\ IsOg(e.property[1]))

\* one pass of the loop over og_tags: try ... except Exception: pass
OgStep(acc, tag) ==
    IF tag.raises = "property" THEN acc
    ELSE IF tag.raises = "content" THEN acc
    ELSE IF Truthy(tag.property) /\ Truthy(tag.content)
         THEN Put(acc, tag.property[1], tag.content[1])
         ELSE acc

RECURSIVE OgFrom(_, _)
OgFrom(tags, acc) ==
    IF tags = <<>> THEN acc
    ELSE OgFrom(Tail(tags), OgStep(acc, Head(tags)))

\* _extract_meta when query_selector_all does not raise
ExtractMetaOf(d) == OgFrom(OgTags(d.metas), MetaNamesFrom(d, 1, {}))

----------------------------------------------------------------------------
(* _extract_headings                                                       *)

\* the code points str.strip() removes, those str.isspace() holds of:
\* U+0009..U+000D, U+001C..U+0020, U+0085, U+00A0, U+1680, U+2000..U+200A,
\* U+2028, U+2029, U+202F, U+205F, U+3000
WhiteSpace ==
    (9..13) \cup (28..32) \cup {133, 160, 5760} \cup (8192..8202)
        \cup {8232, 8233, 8239, 8287, 12288}

IsSpace(c) == c \in WhiteSpace

RECURSIVE LStrip(_)
LStrip(t) == IF t # <<>> /\ IsSpace(Head(t)) THEN LStrip(Tail(t)) ELSE t

RECURSIVE RStrip(_)
RStrip(t) ==
    IF t # <<>> /\ IsSpace(t[Len(t)]) THEN RStrip(SubSeq(t, 1, Len(t) - 1)) ELSE t

\* str.strip()
Strip(t) == RStrip(LStrip(t))

\* tag = f'h{level}'
Tag(level) == <<"h1", "h2", "h3", "h4", "h5", "h6">>[level]

\* page.query_selector_all(tag)
QueryAllTag(heads, level) == SelectSeq(heads, LAMBDA e : e.level = level)

\* one pass of the inner loop: try ... except Exception: pass
TextStep(texts, e) ==
    IF e.raises THEN texts
    ELSE IF Strip(e.text) # <<>> THEN Append(texts, Strip(e.text))
    ELSE texts

RECURSIVE TextsFrom(_, _)
TextsFrom(elems, texts) ==
    IF elems = <<>> THEN texts
    ELSE TextsFrom(Tail(elems), TextStep(texts, Head(elems)))

\* a loop that records every level, also one without texts
LevelStep_KeepsEmpty(acc, heads, level) ==
    Put(acc, Tag(level), TextsFrom(QueryAllTag(heads, level), <<>>))

\* if texts: headings[tag] = texts
LevelStep(acc, heads, level) ==
    IF TextsFrom(QueryAllTag(heads, level), <<>>) # <<>>
    THEN Put(acc, Tag(level), TextsFrom(QueryAllTag(heads, level), <<>>))
    ELSE acc

RECURSIVE HeadingsFrom(_, _, _)
HeadingsFrom(heads, level, acc) ==
    IF level > 6 THEN acc
    ELSE HeadingsFrom(heads, level + 1, LevelStep(acc, heads, level))

\* _extract_headings when no query_selector_all raises
ExtractHeadingsOf(d) == HeadingsFrom(d.heads, 1, {})

VARIABLES
    op,                \* which public method runs
    full_page,         \* argument full_page
    wait_time,         \* argument wait_time
    scroll_delay,      \* argument scroll_delay
    viewport_height,   \* argument viewport_height = page.viewport_size["height"]
    pc,                \* position of the run in the code
    exc,               \* the exception in flight or handled: "none", "timeout", "error"
    excAt,             \* the step that raised it
    playwright,        \* the sync_playwright() context: "none", "running", "stopped"
    browser,           \* the launched browser: "none", "open", "closed"
    total_height,      \* local of _trigger_lazy_load
    current_position,  \* local of _trigger_lazy_load
    scroll_count,      \* local of _trigger_lazy_load
    scrollY,           \* the page's scroll position
    navCount,          \* history: page.goto calls issued
    waited,            \* history: the post-load time.sleep(wait_time) happened
    lazyEntered,       \* history: _trigger_lazy_load was entered
    scrolls,           \* history: window.scrollTo commands issued
    iterations,        \* history: bodies of the scroll loop executed
    maxMeasured,       \* history: largest height any measurement returned
    visited,           \* history: the positions the scroll loop scrolled to
    grew,              \* history: a re-measurement exceeded the tracked height
    steady,            \* history: every measurement returned the same height
    prevOp,            \* history: the page operation before the last one
    lastOp,            \* history: the last page operation of the lazy-load trigger
    idle,              \* history: the network-idle wait: "none", "ok", "failed"
    shot,              \* history: page.screenshot wrote the image
    dom,               \* the page that _extract_content reads
    reads,             \* history: the reads _extract_content issued, in order
    meta,              \* local of _extract_content: dict as a set of <<key, value>>
    images,            \* local of _extract_content: list of ImageInfo
    headings,          \* local of _extract_content: dict as a set of <<tag, texts>>
    returned,          \* the value returned to the caller
    report             \* the message printed for the caller

args == <<op, full_page, wait_time, scroll_delay, viewport_height>>
locals == <<total_height, current_position, scroll_count>>
measured == <<maxMeasured, visited, grew, steady>>
lazyHist == <<lazyEntered, scrolls, iterations, measured, prevOp, lastOp, idle>>
extraction == <<reads, meta, images, headings>>
vars == <<args, pc, exc, excAt, playwright, browser, locals, scrollY, navCount,
          waited, lazyHist, shot, dom, extraction, returned, report>>

Init ==
    /\ op \in Ops
    /\ full_page \in BOOLEAN
    /\ wait_time \in WaitTimes
    /\ scroll_delay \in ScrollDelays
    /\ viewport_height \in ViewportHeights
    /\ pc = "launch"
    /\ exc = "none"
    /\ excAt = "none"
    /\ playwright = "running"
    /\ browser = "none"
    /\ total_height = 0
    /\ current_position = 0
    /\ scroll_count = 0
    /\ scrollY = 0
    /\ navCount = 0
    /\ waited = FALSE
    /\ lazyEntered = FALSE
    /\ scrolls = 0
    /\ iterations = 0
    /\ maxMeasured = 0
    /\ visited = {}
    /\ grew = FALSE
    /\ steady = TRUE
    /\ prevOp = "none"
    /\ lastOp = "none"
    /\ idle = "none"
    /\ shot = FALSE
    /\ dom \in PipelineDoms
    /\ reads = <<>>
    /\ meta = {}
    /\ images = <<>>
    /\ headings = {}
    /\ returned = "pending"
    /\ report = "none"

----------------------------------------------------------------------------
(* Exceptions: a raising call leaves the with block.                       *)

\* an exception of `kind` leaves the frame of the step `at`; the locals of
\* _trigger_lazy_load die with their frame
Raise(kind, at) ==
    /\ pc' = "unwind"
    /\ exc' = kind
    /\ excAt' = at
    /\ total_height' = 0
    /\ current_position' = 0
    /\ scroll_count' = 0

NoRaise == UNCHANGED <<exc, excAt>>

\* the histories of one activation of _trigger_lazy_load end with it
EndActivation ==
    /\ maxMeasured' = 0
    /\ visited' = {}
    /\ grew' = FALSE
    /\ steady' = TRUE

----------------------------------------------------------------------------
(* capture / capture_full up to the screenshot                             *)

\* browser = self._launch_browser(p): the launch succeeds, runs into its own
\* timeout (playwright TimeoutError) or fails otherwise
LaunchBrowser ==
    /\ pc = "launch"
    /\ \E outcome \in {"ok", "timeout", "error"} :
        IF outcome = "ok"
        THEN /\ browser' = "open"
             /\ pc' = "new_page"
             /\ NoRaise
             /\ UNCHANGED locals
        ELSE /\ Raise(outcome, "launch")
             /\ UNCHANGED browser
    /\ UNCHANGED <<args, playwright, scrollY, navCount, waited, lazyHist, shot,
                   dom, extraction, returned, report>>

\* page = browser.new_page(...); page.set_default_timeout(timeout)
NewPage ==
    /\ pc = "new_page"
    /\ \E outcome \in {"ok", "error"} :
        IF outcome = "ok"
        THEN /\ pc' = "goto"
             /\ NoRaise
             /\ UNCHANGED locals
        ELSE Raise("error", "new_page")
    /\ UNCHANGED <<args, playwright, browser, scrollY, navCount, waited, lazyHist,
                   shot, dom, extraction, returned, report>>

\* _load_page: page.goto(url, wait_until="load")
Goto ==
    /\ pc = "goto"
    /\ navCount' = navCount + 1
    /\ \E outcome \in {"ok", "timeout", "error"} :
        IF outcome = "ok"
        THEN /\ pc' = "post_wait"
             /\ NoRaise
             /\ UNCHANGED locals
        ELSE Raise(outcome, "goto")
    /\ UNCHANGED <<args, playwright, browser, scrollY, waited, lazyHist, shot,
                   dom, extraction, returned, report>>

\* _load_page: if wait_time > 0: time.sleep(wait_time)
PostLoadWait ==
    /\ pc = "post_wait"
    /\ waited' = (wait_time > 0)
    /\ pc' = "lazy_check"
    /\ UNCHANGED <<args, exc, excAt, playwright, browser, locals, scrollY,
                   navCount, lazyHist, shot, dom, extraction, returned, report>>

\* a trigger that looks at full_page alone
NeedLazyLoad_IgnoresDelay(fp, delay) == fp

\* the condition of _load_page under which _trigger_lazy_load is called
NeedLazyLoad(fp, delay) == fp /\ delay > 0

\* a _load_page that goes on to the screenshot without the trigger
LazyCheck_SkipsTrigger ==
    /\ pc = "lazy_check"
    /\ pc' = "screenshot"
    /\ UNCHANGED <<args, exc, excAt, playwright, browser, locals, scrollY,
                   navCount, waited, lazyHist, shot, dom, extraction, returned,
                   report>>

\* _load_page: if full_page and scroll_delay > 0: self._trigger_lazy_load(...)
LazyCheck ==
    /\ pc = "lazy_check"
    /\ IF NeedLazyLoad(full_page, scroll_delay)
       THEN /\ pc' = "measure_init"
            /\ lazyEntered' = TRUE
       ELSE /\ pc' = "screenshot"
            /\ UNCHANGED lazyEntered
    /\ UNCHANGED <<args, exc, excAt, playwright, browser, locals, scrollY,
                   navCount, waited, scrolls, iterations, measured, prevOp,
                   lastOp, idle, shot, dom, extraction, returned, report>>

----------------------------------------------------------------------------
(* _trigger_lazy_load                                                      *)

Max(a, b) == IF a > b THEN a ELSE b

\* a loop bounded by the height alone
LoopCond_NoCap(pos, height, count) == pos < height

\* a loop that also scrolls to a position equal to the height
LoopCond_Inclusive(pos, height, count) == pos <= height /\ count < max_scrolls

\* the while condition of the scroll loop
LoopCond(pos, height, count) == pos < height /\ count < max_scrolls

\* a bound captured once, before the loop
UpdatedHeight_Fixed(total, new_height) == total

\* a bound that follows the latest measurement, down as well as up
UpdatedHeight_Latest(total, new_height) == new_height

\* if new_height > total_height: total_height = new_height
UpdatedHeight(total, new_height) ==
    IF new_height > total THEN new_height ELSE total

\* record a page operation of the trigger in the two-step history
Did(what) ==
    /\ prevOp' = lastOp
    /\ lastOp' = what

\* total_height = page.evaluate("document.body.scrollHeight");
\* viewport_height = page.viewport_size["height"]; current_position = 0;
\* scroll_count = 0
MeasureInit ==
    /\ pc = "measure_init"
    /\ \E outcome \in {"ok", "error"} :
        IF outcome = "ok"
        THEN \E h \in Heights :
                /\ total_height' = h
                /\ current_position' = 0
                /\ scroll_count' = 0
                /\ maxMeasured' = h
                /\ visited' = {}
                /\ grew' = FALSE
                /\ steady' = TRUE
                /\ Did("measure")
                /\ pc' = "loop"
                /\ NoRaise
        ELSE /\ Raise("error", "measure_init")
             /\ UNCHANGED <<measured, prevOp, lastOp>>
    /\ UNCHANGED <<args, playwright, browser, scrollY, navCount, waited,
                   lazyEntered, scrolls, iterations, idle, shot, dom, extraction,
                   returned, report>>

\* loop body, first statement: page.evaluate(f"window.scrollTo(0, {current_position})").
\* scrollY is the position asked for (the browser clamps it to the document;
\* position 0 is never clamped).
LoopScroll ==
    /\ pc = "loop"
    /\ LoopCond(current_position, total_height, scroll_count)
    /\ iterations' = iterations + 1
    /\ \E outcome \in {"ok", "error"} :
        IF outcome = "ok"
        THEN /\ scrollY' = current_position
             /\ scrolls' = scrolls + 1
             /\ Did("scroll")
             /\ pc' = "loop_sleep"
             /\ NoRaise
             /\ visited' = visited \cup {current_position}
             /\ UNCHANGED <<locals, maxMeasured, grew, steady>>
        ELSE /\ Raise("error", "loop_scroll")
             /\ EndActivation
             /\ UNCHANGED <<scrollY, scrolls, prevOp, lastOp>>
    /\ UNCHANGED <<args, playwright, browser, navCount, waited, lazyEntered,
                   idle, shot, dom, extraction, returned, report>>

\* an iteration that advances without suspending
LoopSleep_NoSuspend ==
    /\ pc = "loop_sleep"
    /\ current_position' = current_position + viewport_height
    /\ scroll_count' = scroll_count + 1
    /\ pc' = "loop_measure"
    /\ UNCHANGED <<args, exc, excAt, playwright, browser, total_height, scrollY,
                   navCount, waited, lazyHist, shot, dom, extraction, returned,
                   report>>

\* time.sleep(delay); current_position += viewport_height; scroll_count += 1
LoopSleep ==
    /\ pc = "loop_sleep"
    /\ current_position' = current_position + viewport_height
    /\ scroll_count' = scroll_count + 1
    /\ Did("sleep")
    /\ pc' = "loop_measure"
    /\ UNCHANGED <<args, exc, excAt, playwright, browser, total_height, scrollY,
                   navCount, waited, lazyEntered, scrolls, iterations,
                   measured, idle, shot, dom, extraction, returned, report>>

\* new_height = page.evaluate("document.body.scrollHeight"); keep the larger
LoopMeasure ==
    /\ pc = "loop_measure"
    /\ \E outcome \in {"ok", "error"} :
        IF outcome = "ok"
        THEN \E new_height \in Heights :
                /\ total_height' = UpdatedHeight(total_height, new_height)
                /\ maxMeasured' = Max(maxMeasured, new_height)
                /\ grew' = (grew \/ new_height > total_height)
                /\ steady' = (steady /\ new_height = maxMeasured)
                /\ UNCHANGED visited
                /\ Did("measure")
                /\ pc' = "loop"
                /\ NoRaise
                /\ UNCHANGED <<current_position, scroll_count>>
        ELSE /\ Raise("error", "loop_measure")
             /\ EndActivation
             /\ UNCHANGED <<prevOp, lastOp>>
    /\ UNCHANGED <<args, playwright, browser, scrollY, navCount, waited,
                   lazyEntered, scrolls, iterations, idle, shot, dom, extraction,
                   returned, report>>

\* a trigger that leaves the page where the loop left it
TopPosition_Stay == scrollY

\* the position of window.scrollTo(0, 0)
TopPosition == 0

\* after the loop: page.evaluate("window.scrollTo(0, 0)")
ScrollTop ==
    /\ pc = "loop"
    /\ ~LoopCond(current_position, total_height, scroll_count)
    /\ \E outcome \in {"ok", "error"} :
        IF outcome = "ok"
        THEN /\ scrollY' = TopPosition
             /\ scrolls' = scrolls + 1
             /\ Did("scroll")
             /\ pc' = "sleep_top"
             /\ NoRaise
             /\ UNCHANGED <<locals, measured>>
        ELSE /\ Raise("error", "scroll_top")
             /\ EndActivation
             /\ UNCHANGED <<scrollY, scrolls, prevOp, lastOp>>
    /\ UNCHANGED <<args, playwright, browser, navCount, waited, lazyEntered,
                   iterations, idle, shot, dom, extraction, returned, report>>

\* time.sleep(delay) after the scroll back to the top
SleepTop ==
    /\ pc = "sleep_top"
    /\ Did("sleep")
    /\ pc' = "idle_wait"
    /\ UNCHANGED <<args, exc, excAt, playwright, browser, locals, scrollY,
                   navCount, waited, lazyEntered, scrolls, iterations,
                   measured, idle, shot, dom, extraction, returned, report>>

\* an idle wait whose failure leaves the with block
AfterIdleWait_Propagates(outcome) == IF outcome = "ok" THEN "screenshot" ELSE "unwind"

\* what the try/except around wait_for_load_state does with the wait's outcome:
\* the position the run continues at
AfterIdleWait(outcome) == "screenshot"

\* try: page.wait_for_load_state("networkidle", timeout=10000)
\* except Exception: pass.  _trigger_lazy_load and _load_page return; the
\* measurements of this activation end with it.
IdleWait ==
    /\ pc = "idle_wait"
    /\ \E outcome \in {"ok", "timeout", "error"} :
        /\ idle' = IF outcome = "ok" THEN "ok" ELSE "failed"
        /\ pc' = AfterIdleWait(outcome)
    /\ total_height' = 0
    /\ current_position' = 0
    /\ scroll_count' = 0
    /\ EndActivation
    /\ Did("idle")
    /\ UNCHANGED <<args, exc, excAt, playwright, browser, scrollY, navCount,
                   waited, lazyEntered, scrolls, iterations, shot, dom, extraction,
                   returned, report>>

----------------------------------------------------------------------------
(* capture / capture_full from the screenshot on                           *)

\* a capture_full that visits the page again for its content
AfterScreenshot_Renavigate(o) == IF o = "capture" THEN "close" ELSE "goto"

\* a capture that reads the page's content as capture_full does
AfterScreenshot_AlwaysExtracts(o) == "extract_title"

\* the statement that follows page.screenshot: browser.close() in capture,
\* self._extract_content(page, output_path) in capture_full
AfterScreenshot(o) == IF o = "capture" THEN "close" ELSE "extract_title"

\* page.screenshot(path=output_path, full_page=full_page, ...); it runs under
\* the page's default timeout
Screenshot ==
    /\ pc = "screenshot"
    /\ \E outcome \in {"ok", "timeout", "error"} :
        IF outcome = "ok"
        THEN /\ shot' = TRUE
             /\ pc' = AfterScreenshot(op)
             /\ NoRaise
             /\ UNCHANGED locals
        ELSE /\ Raise(outcome, "screenshot")
             /\ UNCHANGED shot
    /\ UNCHANGED <<args, playwright, browser, scrollY, navCount, waited, lazyHist,
                   dom, extraction, returned, report>>

\* a page-level read of _extract_content: it is recorded, and either raises
\* the page's fault or lets the run continue at `next`
PageRead(what, next) ==
    /\ reads' = Append(reads, what)
    /\ IF dom.fault.at = what
       THEN Raise(dom.fault.kind, what)
       ELSE /\ pc' = next
            /\ NoRaise
            /\ UNCHANGED locals

\* an extraction that goes from the title straight to the meta tags
ExtractTitle_SkipsText ==
    /\ pc = "extract_title"
    /\ PageRead("title", "extract_meta")
    /\ UNCHANGED <<args, playwright, browser, scrollY, navCount, waited, lazyHist,
                   shot, dom, meta, images, headings, returned, report>>

\* url = page.url; title = page.title()
ExtractTitle ==
    /\ pc = "extract_title"
    /\ PageRead("title", "extract_text")
    /\ UNCHANGED <<args, playwright, browser, scrollY, navCount, waited, lazyHist,
                   shot, dom, meta, images, headings, returned, report>>

\* text_content = page.inner_text('body')
ExtractText ==
    /\ pc = "extract_text"
    /\ PageRead("body", "extract_html")
    /\ UNCHANGED <<args, playwright, browser, scrollY, navCount, waited, lazyHist,
                   shot, dom, meta, images, headings, returned, report>>

\* html = page.content()
ExtractHtml ==
    /\ pc = "extract_html"
    /\ PageRead("content", "extract_meta")
    /\ UNCHANGED <<args, playwright, browser, scrollY, navCount, waited, lazyHist,
                   shot, dom, meta, images, headings, returned, report>>

\* meta = self._extract_meta(page): the loop over meta_names, then
\* query_selector_all('meta[property^="og:"]') outside any try, then its loop
ExtractMeta ==
    /\ pc = "extract_meta"
    /\ PageRead("og", "extract_images")
    /\ meta' = IF dom.fault.at = "og" THEN meta ELSE ExtractMetaOf(dom)
    /\ UNCHANGED <<args, playwright, browser, scrollY, navCount, waited, lazyHist,
                   shot, dom, images, headings, returned, report>>

\* images = self._extract_images(page): query_selector_all('img') outside any
\* try, then the loop
ExtractImages ==
    /\ pc = "extract_images"
    /\ PageRead("img", "extract_headings")
    /\ images' = IF dom.fault.at = "img" THEN images ELSE ExtractImagesOf(dom)
    /\ UNCHANGED <<args, playwright, browser, scrollY, navCount, waited, lazyHist,
                   shot, dom, meta, headings, returned, report>>

\* the first of the six query_selector_all(tag) calls that raises, 0 for none
FaultyLevel(d) ==
    IF \E l \in 1..6 : d.fault.at = Tag(l)
    THEN CHOOSE l \in 1..6 : d.fault.at = Tag(l)
    ELSE 0

\* headings = self._extract_headings(page); return WebPageContent(...)
ExtractHeadings ==
    /\ pc = "extract_headings"
    /\ IF FaultyLevel(dom) # 0
       THEN /\ PageRead(dom.fault.at, "close")
            /\ UNCHANGED headings
       ELSE /\ PageRead("h6", "close")
            /\ headings' = ExtractHeadingsOf(dom)
    /\ UNCHANGED <<args, playwright, browser, scrollY, navCount, waited, lazyHist,
                   shot, dom, meta, images, returned, report>>

\* browser.close()
CloseBrowser ==
    /\ pc = "close"
    /\ \E outcome \in {"ok", "error"} :
        IF outcome = "ok"
        THEN /\ browser' = "closed"
             /\ pc' = "return"
             /\ NoRaise
             /\ UNCHANGED locals
        ELSE /\ Raise("error", "close")
             /\ UNCHANGED browser
    /\ UNCHANGED <<args, playwright, scrollY, navCount, waited, lazyHist, shot,
                   dom, extraction, returned, report>>

\* a context that is not torn down when the block is left
WithExit_Leak(p) == p

\* what leaving the with sync_playwright() block does to the context: the
\* driver is stopped, and with it every browser it launched
WithExit(p) == "stopped"

\* print("✅ ..."); return True / return content: the with block is left
\* and the value reaches the caller
Return ==
    /\ pc = "return"
    /\ report' = "success"
    /\ playwright' = WithExit(playwright)
    /\ returned' = IF op = "capture" THEN "True" ELSE "content"
    /\ pc' = "done"
    /\ UNCHANGED <<args, exc, excAt, browser, locals, scrollY, navCount, waited,
                   lazyHist, shot, dom, extraction>>

\* the exception leaves the with sync_playwright() block on its way to the
\* except clauses
Unwind ==
    /\ pc = "unwind"
    /\ playwright' = WithExit(playwright)
    /\ pc' = "handler"
    /\ UNCHANGED <<args, exc, excAt, browser, locals, scrollY, navCount, waited,
                   lazyHist, shot, dom, extraction, returned, report>>

\* except PlaywrightTimeout: print("... 页面加载超时 ...")
\* except Exception as e:    print(f"... {str(e)}")
HandlerReport(kind) == IF kind = "timeout" THEN "load_timeout" ELSE "generic"

\* a capture_full that hands out what it has on failure
FailureValue_Partial(o) == IF o = "capture" THEN "False" ELSE "content"

\* return False (capture) / return None (capture_full)
FailureValue(o) == IF o = "capture" THEN "False" ELSE "None"

\* the except clauses
Handler ==
    /\ pc = "handler"
    /\ report' = HandlerReport(exc)
    /\ returned' = FailureValue(op)
    /\ pc' = "done"
    /\ UNCHANGED <<args, exc, excAt, playwright, browser, locals, scrollY,
                   navCount, waited, lazyHist, shot, dom, extraction>>

----------------------------------------------------------------------------

NextExtract ==
    \/ ExtractTitle
    \/ ExtractText
    \/ ExtractHtml
    \/ ExtractMeta
    \/ ExtractImages
    \/ ExtractHeadings
    \/ CloseBrowser
    \/ Return
    \/ Unwind
    \/ Handler

Next ==
    \/ LaunchBrowser
    \/ NewPage
    \/ Goto
    \/ PostLoadWait
    \/ LazyCheck
    \/ MeasureInit
    \/ LoopScroll
    \/ LoopSleep
    \/ LoopMeasure
    \/ ScrollTop
    \/ SleepTop
    \/ IdleWait
    \/ Screenshot
    \/ NextExtract

\* one run of capture or capture_full
Spec == Init /\ [][Next]_vars

\* capture_full right after its screenshot was written, on a page that varies
\* one kind of content or the failing reads: the runs of _extract_content
InitExtract ==
    /\ op = "capture_full"
    /\ full_page = TRUE
    /\ wait_time = 0
    /\ scroll_delay = 0
    /\ viewport_height = 1
    /\ pc = "extract_title"
    /\ exc = "none"
    /\ excAt = "none"
    /\ playwright = "running"
    /\ browser = "open"
    /\ total_height = 0
    /\ current_position = 0
    /\ scroll_count = 0
    /\ scrollY = 0
    /\ navCount = 1
    /\ waited = FALSE
    /\ lazyEntered = FALSE
    /\ scrolls = 0
    /\ iterations = 0
    /\ maxMeasured = 0
    /\ visited = {}
    /\ grew = FALSE
    /\ steady = TRUE
    /\ prevOp = "none"
    /\ lastOp = "none"
    /\ idle = "none"
    /\ shot = TRUE
    /\ dom \in ContentDoms(NoFault) \cup FaultDoms
    /\ reads = <<>>
    /\ meta = {}
    /\ images = <<>>
    /\ headings = {}
    /\ returned = "pending"
    /\ report = "none"

SpecExtract == InitExtract /\ [][NextExtract]_vars

----------------------------------------------------------------------------
(* Properties                                                              *)

ExtractPcs == {"extract_title", "extract_text", "extract_html", "extract_meta",
               "extract_images", "extract_headings"}

\* C1: the scroll loop runs its body at most max_scrolls times whatever
\* heights the measurements return, and once it has run max_scrolls times the
\* loop is left (the body cannot start again, the scroll back to the top can).
C1_LoopWithinCap ==
    /\ iterations <= max_scrolls
    /\ scroll_count <= max_scrolls
    /\ (pc = "loop" /\ iterations = max_scrolls) => (~ENABLED LoopScroll /\ ENABLED ScrollTop)

\* C1 witness: the cap ends the loop of a page that is still taller than the
\* position reached.
C1_Witness ==
    pc = "loop" /\ iterations = max_scrolls /\ current_position < total_height

\* C2: when capture or capture_full has returned, on the success path and on
\* every failure path, the browser it launched is released: closed by
\* browser.close() or taken down with the Playwright context the with block
\* stops.
C2_ReleasedOnReturn ==
    pc = "done" => (browser # "open" \/ playwright = "stopped")

\* C2 witness: a run that failed after the launch has returned; browser.close()
\* was skipped and the exit of the with block released the browser.
C2_Witness ==
    pc = "done" /\ exc # "none" /\ browser = "open" /\ playwright = "stopped"

\* C3: a run issues at most one navigation; once the screenshot is written
\* exactly one has been issued, and during the whole extraction of capture_full
\* that count stays one and the page stays open (browser open, context running).
C3_OneNavigation ==
    /\ navCount <= 1
    /\ shot => navCount = 1
    /\ pc \in ExtractPcs =>
        (op = "capture_full" /\ shot /\ navCount = 1 /\ browser = "open"
         /\ playwright = "running")
    /\ (pc = "done" /\ returned = "content") => navCount = 1

\* C3 witness: capture_full has returned its content.
C3_Witness ==
    pc = "done" /\ returned = "content" /\ Len(reads) = 6

\* C4: with full_page false or scroll_delay not positive the run never enters
\* _trigger_lazy_load: no scroll command, no page operation of the trigger
\* and no network-idle wait, up to the screenshot and after it.
C4_NoScrollWithoutLazyLoad ==
    (~full_page \/ scroll_delay <= 0) =>
        (scrolls = 0 /\ iterations = 0 /\ ~lazyEntered /\ lastOp = "none"
         /\ idle = "none" /\ scrollY = 0)

\* C4 witness: a full_page run with a scroll delay of zero took its screenshot.
C4_Witness ==
    shot /\ full_page /\ scroll_delay = 0 /\ scrolls = 0

\* C5: when _trigger_lazy_load has left its loop and slept, the last scroll
\* command was the scroll to position 0 and the delay followed it; the page is
\* at position 0 when the screenshot is due and when it has been taken.
C5_BackToTop ==
    /\ pc = "idle_wait" => (prevOp = "scroll" /\ lastOp = "sleep" /\ scrollY = 0)
    /\ (lazyEntered /\ pc = "screenshot") =>
        (prevOp = "sleep" /\ lastOp = "idle" /\ scrollY = 0 /\ scrolls = iterations + 1)
    /\ (lazyEntered /\ shot) => scrollY = 0

\* C5 witness: the screenshot is due after a loop that the step cap ended.
C5_Witness ==
    pc = "screenshot" /\ lazyEntered /\ iterations = max_scrolls /\ scrollY = 0

\* C6: a run whose page.goto timed out takes no screenshot, performs no
\* extraction read, keeps no extracted content, and returns False (capture)
\* or None (capture_full).
C6_NavigationTimeout ==
    (excAt = "goto" /\ exc = "timeout") =>
        /\ ~shot
        /\ reads = <<>>
        /\ meta = {} /\ images = <<>> /\ headings = {}
        /\ returned \in {"pending", IF op = "capture" THEN "False" ELSE "None"}
        /\ pc = "done" => returned = (IF op = "capture" THEN "False" ELSE "None")

\* C6 witness: capture_full has returned after a navigation timeout.
C6_Witness ==
    pc = "done" /\ op = "capture_full" /\ excAt = "goto" /\ exc = "timeout"

\* C7 (as claimed): a returned run is reported as a load timeout exactly when
\* its navigation step timed out; every other failure is reported generically.
C7_TimeoutReportExact ==
    pc = "done" => (report = "load_timeout" <=> (excAt = "goto" /\ exc = "timeout"))

\* C8: a failed network-idle wait raises nothing out of _trigger_lazy_load:
\* the run is at the screenshot, or has taken it, or failed in the screenshot
\* itself, and a run with no other failure returns its success value.
C8_IdleFailureSwallowed ==
    /\ excAt # "idle_wait"
    /\ idle = "failed" =>
        (pc = "screenshot" \/ shot \/ excAt = "screenshot")
    /\ (idle # "none" /\ lastOp = "idle" /\ ~shot /\ exc = "none") => pc = "screenshot"
    /\ (pc = "done" /\ idle = "failed" /\ exc = "none") =>
        returned = (IF op = "capture" THEN "True" ELSE "content")

\* C8 witness: capture_full returned its content although the idle wait failed.
C8_Witness ==
    pc = "done" /\ idle = "failed" /\ returned = "content"

\* the reads of _extract_content come in the order of PageReads, so the
\* length of reads tells which categories were extracted
MetaExtracted == Len(reads) >= 4 /\ dom.fault.at # "og"
ImagesExtracted == Len(reads) >= 5 /\ dom.fault.at # "img"
HeadingsExtracted == Len(reads) >= 6 /\ FaultyLevel(dom) = 0

\* a meta element whose read fails, or whose lookup by name fails, seen as
\* the same element without a content attribute
Blanked(d, e) ==
    IF e.raises # "none" \/ (e.name # <<>> /\ e.name[1] \in d.nameFaults)
    THEN [e EXCEPT !.content = <<>>, !.raises = "none"]
    ELSE e

AllReadable(d) ==
    [d EXCEPT !.nameFaults = {},
              !.metas = [i \in DOMAIN d.metas |-> Blanked(d, d.metas[i])],
              !.imgs = SelectSeq(d.imgs, LAMBDA e : e.raises = "none"),
              !.heads = SelectSeq(d.heads, LAMBDA e : ~e.raises)]

\* C9 (as claimed): every capture_full run that reached the extraction
\* returns a snapshot whatever DOM read failed (only browser.close() failing
\* afterwards may still abort it).
C9_EveryReadFailureSwallowed ==
    (pc = "done" /\ op = "capture_full" /\ reads # <<>> /\ excAt # "close") =>
        returned = "content"

\* C9 (amended): the failure of a read made on one element (an attribute or
\* text read) or of the query_selector lookup of a named meta tag is
\* swallowed: the extraction yields what it yields on the page without the
\* unreadable images and headings and with the unreadable meta tags carrying
\* no content, and capture_full returns a snapshot.  The failure of a
\* page-level read (title, inner_text('body'), content, query_selector_all)
\* aborts the run: capture_full returns None.
C9_ElementFailuresSwallowed ==
    /\ (pc = "done" /\ excAt # "close") =>
        /\ dom.fault = NoFault => (returned = "content" /\ exc = "none")
        /\ dom.fault # NoFault => (returned = "None" /\ excAt = dom.fault.at)
    /\ MetaExtracted => meta = ExtractMetaOf(AllReadable(dom))
    /\ ImagesExtracted => images = ExtractImagesOf(AllReadable(dom))
    /\ HeadingsExtracted => headings = ExtractHeadingsOf(AllReadable(dom))

\* C9 witness: a snapshot was returned from a page whose first image is
\* unreadable and whose second image was extracted.
C9_Witness ==
    /\ pc = "done" /\ returned = "content"
    /\ Len(dom.imgs) = 2 /\ dom.imgs[1].raises = "src" /\ Len(images) = 1

\* the images the claim describes: the readable img elements with a present,
\* non-empty src, in document order, absent attributes read as ''
ExpectedImages(d) ==
    LET good == SelectSeq(d.imgs,
                    LAMBDA e : e.raises = "none" /\ e.src # <<>> /\ e.src # <<"">>)
        dflt(a) == IF a = <<>> THEN "" ELSE a[1]
    IN  [i \in 1..Len(good) |->
            [src |-> good[i].src[1], alt |-> dflt(good[i].alt),
             width |-> dflt(good[i].width), height |-> dflt(good[i].height)]]

\* C10: the list _extract_images returns has no entry with an empty src and
\* is exactly the readable img elements with a present, non-empty src, in
\* document order, with alt, width and height '' when absent.
C10_ImagesNonEmptySrc ==
    ImagesExtracted =>
        /\ \A i \in 1..Len(images) : images[i].src # ""
        /\ images = ExpectedImages(dom)

\* C10 witness: of two images the one with an empty src was dropped and the
\* one without alt, width and height was kept with '' in their place.
C10_Witness ==
    /\ ImagesExtracted
    /\ Len(dom.imgs) = 2 /\ dom.imgs[1].src = <<"">> /\ dom.imgs[2].alt = <<>>
    /\ Len(images) = 1 /\ images[1].alt = "" /\ images[1].width = ""

\* a text without its leading and trailing white space: what lies between
\* its first and its last character that is no white space
Trimmed(t) ==
    LET solid == {i \in 1..Len(t) : t[i] \notin WhiteSpace}
    IN  IF solid = {} THEN <<>>
        ELSE SubSeq(t, CHOOSE i \in solid : \A j \in solid : i <= j,
                       CHOOSE i \in solid : \A j \in solid : i >= j)

\* the trimmed non-empty texts of the readable headings of one level, in
\* document order
LevelTexts(d, l) ==
    LET kept == SelectSeq(d.heads,
                    LAMBDA e : e.level = l /\ ~e.raises /\ Trimmed(e.text) # <<>>)
    IN  [i \in 1..Len(kept) |-> Trimmed(kept[i].text)]

\* C11: the heading index maps no key to an empty sequence, its keys are
\* among h1..h6, each key is held exactly once, a level is present exactly
\* when the page has a readable heading of that level whose trimmed text is
\* not empty, and its value lists those trimmed texts in document order.
C11_HeadingIndex ==
    HeadingsExtracted =>
        /\ \A kv \in headings : kv[2] # <<>>
        /\ \A kv \in headings : kv[1] \in {"h1", "h2", "h3", "h4", "h5", "h6"}
        /\ \A kv \in headings : \A kw \in headings : kv[1] = kw[1] => kv = kw
        /\ \A l \in 1..6 :
            /\ (Tag(l) \in Keys(headings)) <=> (LevelTexts(dom, l) # <<>>)
            /\ LevelTexts(dom, l) # <<>> => <<Tag(l), LevelTexts(dom, l)>> \in headings

\* C11 witness: of an h1 whose text is a no-break space and B, and a blank
\* h2, the index holds h1: ["B"] alone.
C11_Witness ==
    /\ HeadingsExtracted
    /\ Len(dom.heads) = 2
    /\ dom.heads[1].level = 1 /\ dom.heads[1].text = <<160, 66>>
    /\ dom.heads[2].level = 2 /\ dom.heads[2].text = <<32>>
    /\ headings = {<<"h1", << <<66>> >> >>}

\* the meta elements the selector meta[property^="og:"] matches and whose
\* attributes can be read
ReadableOg(d) ==
    {i \in 1..Len(d.metas) :
        /\ d.metas[i].property # <<>>
        /\ IsOg(d.metas[i].property[1])
        /\ d.metas[i].raises = "none"}

\* the first meta element named n, the one query_selector returns; 0 for none
FirstMatch(d, n) ==
    IF \E i \in 1..Len(d.metas) : d.metas[i].name = <<n>>
    THEN CHOOSE i \in 1..Len(d.metas) :
            /\ d.metas[i].name = <<n>>
            /\ \A j \in 1..(i - 1) : d.metas[j].name # <<n>>
    ELSE 0

\* the named tag whose content the index holds under n: it was found, it
\* was read, and its content is present and not empty
NamedContent(d, n) ==
    /\ n \notin d.nameFaults
    /\ FirstMatch(d, n) # 0
    /\ d.metas[FirstMatch(d, n)].raises = "none"
    /\ d.metas[FirstMatch(d, n)].content \notin {<<>>, <<"">>}

\* C12 (as claimed): a name of the allow-list is a key exactly when its
\* matching tag has a present, non-empty content, every readable Open-Graph
\* tag is recorded under its property, and no other key appears.
C12_EveryOgTagRecorded ==
    MetaExtracted =>
        /\ \A n \in MetaNameSet : (n \in Keys(meta)) <=> NamedContent(dom, n)
        /\ \A i \in ReadableOg(dom) : dom.metas[i].property[1] \in Keys(meta)
        /\ \A k \in Keys(meta) :
            k \in MetaNameSet \/ \E i \in ReadableOg(dom) : dom.metas[i].property[1] = k

\* the readable Open-Graph tags with property q that carry a non-empty content
OgWithContent(d, q) ==
    {i \in ReadableOg(d) :
        d.metas[i].property = <<q>> /\ d.metas[i].content \notin {<<>>, <<"">>}}

\* C12 (amended): a name of the allow-list is a key exactly when the first
\* tag of that name was found and read and has a present, non-empty content,
\* which is its value; an Open-Graph property is a key exactly when a
\* readable tag of that property has a present, non-empty content, and its
\* value is the content of the last such tag; no other key appears and no key
\* appears twice.
C12_MetaIndex ==
    MetaExtracted =>
        /\ \A n \in MetaNameSet :
            /\ (n \in Keys(meta)) <=> NamedContent(dom, n)
            /\ NamedContent(dom, n) =>
                <<n, dom.metas[FirstMatch(dom, n)].content[1]>> \in meta
        /\ \A i \in ReadableOg(dom) :
            LET q == dom.metas[i].property[1]
                last == CHOOSE j \in OgWithContent(dom, q) :
                            \A h \in OgWithContent(dom, q) : h <= j
            IN  /\ (q \in Keys(meta)) <=> (OgWithContent(dom, q) # {})
                /\ OgWithContent(dom, q) # {} => <<q, dom.metas[last].content[1]>> \in meta
        /\ \A k \in Keys(meta) :
            k \in MetaNameSet \/ \E i \in ReadableOg(dom) : dom.metas[i].property[1] = k
        /\ \A kv \in meta : \A kw \in meta : kv[1] = kw[1] => kv = kw

\* C12 witness: two og:title tags, the later content replaced the earlier.
C12_Witness ==
    /\ MetaExtracted
    /\ Len(dom.metas) = 2
    /\ dom.metas[1].property = <<"og:title">> /\ dom.metas[1].content = <<"X">>
    /\ dom.metas[2].property = <<"og:title">> /\ dom.metas[2].content = <<"Z">>
    /\ dom.metas[1].raises = "none" /\ dom.metas[2].raises = "none"
    /\ meta = {<<"og:title", "Z">>}

\* the place of a position in the pipeline; the three positions of the
\* scroll loop share one place
Stage(p) ==
    CASE p = "launch" -> 0
      [] p = "new_page" -> 1
      [] p = "goto" -> 2
      [] p = "post_wait" -> 3
      [] p = "lazy_check" -> 4
      [] p = "measure_init" -> 5
      [] p \in {"loop", "loop_sleep", "loop_measure"} -> 6
      [] p = "sleep_top" -> 7
      [] p = "idle_wait" -> 8
      [] p = "screenshot" -> 9
      [] p = "extract_title" -> 10
      [] p = "extract_text" -> 11
      [] p = "extract_html" -> 12
      [] p = "extract_meta" -> 13
      [] p = "extract_images" -> 14
      [] p = "extract_headings" -> 15
      [] p = "close" -> 16
      [] p = "return" -> 17
      [] p = "unwind" -> 18
      [] p = "handler" -> 19
      [] p = "done" -> 20

\* what the history says at each point of a run: the steps before it happened
PipelineOrder ==
    /\ navCount <= 1
    /\ waited => (navCount = 1 /\ wait_time > 0)
    /\ lazyEntered => (navCount = 1 /\ (wait_time > 0 => waited))
    /\ (pc = "screenshot" \/ shot) =>
        /\ navCount = 1
        /\ waited <=> wait_time > 0
        /\ lazyEntered <=> (full_page /\ scroll_delay > 0)
        /\ lazyEntered => (idle # "none" /\ lastOp = "idle" /\ prevOp = "sleep")
    /\ ~shot => reads = <<>>
    /\ reads # <<>> => op = "capture_full"
    /\ (pc = "done" /\ exc = "none") =>
        /\ shot
        /\ browser = "closed"
        /\ op = "capture" => (reads = <<>> /\ returned = "True")
        /\ op = "capture_full" => (Len(reads) = 6 /\ returned = "content")

\* C13: the steps of a run happen in the order navigation, post-load wait,
\* lazy-load trigger (with its scroll to the top and its idle wait),
\* screenshot, extraction, return, and none happens twice: every step moves
\* the run to a later place of the pipeline (the scroll loop alone stays in
\* its place), the screenshot is taken only after the trigger finished and
\* the extraction reads only after the screenshot was written.
C13_PipelineOrder ==
    /\ []PipelineOrder
    /\ [][\/ Stage(pc') > Stage(pc)
          \/ (Stage(pc) = 6 /\ Stage(pc') = 6)]_vars

\* C13 witness: capture_full returned its content after the wait, a scroll
\* loop, the screenshot and the six reads of the extraction.
C13_Witness ==
    /\ pc = "done" /\ returned = "content"
    /\ waited /\ lazyEntered /\ iterations > 1 /\ idle = "ok" /\ Len(reads) = 6

\* C14: capture performs no extraction read and keeps no extracted content;
\* once its screenshot is written it only closes the browser, leaves the
\* with block and returns True or False.
C14_CaptureExtractsNothing ==
    op = "capture" =>
        /\ reads = <<>>
        /\ meta = {} /\ images = <<>> /\ headings = {}
        /\ pc \notin ExtractPcs
        /\ shot => pc \in {"close", "return", "unwind", "handler", "done"}
        /\ returned \in {"pending", "True", "False"}
        /\ pc = "done" => returned \in {"True", "False"}

\* C14 witness: capture returned True after its screenshot.
C14_Witness ==
    pc = "done" /\ op = "capture" /\ shot /\ returned = "True" /\ browser = "closed"

----------------------------------------------------------------------------
(* The scroll loop                                                         *)

\* the trigger's frame is live: its locals and measurements are current
InTrigger == pc \in {"loop", "loop_sleep", "loop_measure", "sleep_top", "idle_wait"}

\* the loop has been left and the scroll back to the top issued
LoopLeft == pc \in {"sleep_top", "idle_wait"}

Min(a, b) == IF a < b THEN a ELSE b

CeilDiv(a, b) == (a + b - 1) \div b

\* C15: the loop's bound is the largest height measured so far; the loop is
\* left only with the position at or beyond that height or with the cap
\* reached; and when it is left before the cap, every multiple of the viewport
\* height below the largest measured height has been scrolled to.
C15_MovingBound ==
    /\ InTrigger => total_height = maxMeasured
    /\ LoopLeft =>
          \/ current_position >= maxMeasured
          \/ scroll_count >= max_scrolls
    /\ (LoopLeft /\ scroll_count < max_scrolls) =>
          \A k \in 0..MaxHeight :
              k * viewport_height < maxMeasured => k * viewport_height \in visited

\* C15 witness: the page grew during scrolling and the loop was left before
\* the cap with at least three positions scrolled to.
C15_Witness ==
    /\ pc = "sleep_top"
    /\ grew
    /\ scroll_count < max_scrolls
    /\ current_position >= maxMeasured
    /\ Cardinality(visited) >= 3

\* C16: in an iteration the scroll comes first, the suspend second and the
\* height re-measurement third, so a re-measurement directly follows a suspend
\* that directly follows a scroll, and every test of the loop condition after
\* the first directly follows such a re-measurement.
C16_IterationOrder ==
    /\ pc = "loop_sleep" => lastOp = "scroll"
    /\ pc = "loop_measure" => (lastOp = "sleep" /\ prevOp = "scroll")
    /\ (pc = "loop" /\ iterations > 0) => (lastOp = "measure" /\ prevOp = "sleep")
    /\ (pc = "loop" /\ iterations = 0) => (lastOp = "measure" /\ prevOp = "none")
    /\ InTrigger => scrolls = iterations + (IF LoopLeft THEN 1 ELSE 0)

\* C16 witness: the loop condition is tested after two complete iterations.
C16_Witness ==
    /\ pc = "loop"
    /\ iterations = 2
    /\ scroll_count = 2
    /\ lastOp = "measure"
    /\ prevOp = "sleep"

\* rank of a page-level read in the order of _extract_content's statements
ReadRank(r) ==
    CASE r = "title" -> 0
      [] r = "body" -> 1
      [] r = "content" -> 2
      [] r = "og" -> 3
      [] r = "img" -> 4
      [] OTHER -> 5

IsTextRead(r) == r \in {"body", "content"}

\* C17 as stated: the meta, image and heading reads come in that order and
\* the body text and markup reads come after all of them.
C17_TextAndMarkupLast ==
    \A i, j \in 1..Len(reads) :
        /\ (IsTextRead(reads[i]) /\ ReadRank(reads[j]) >= 3) => j < i
        /\ (~IsTextRead(reads[i]) /\ ~IsTextRead(reads[j]) /\ i < j)
              => ReadRank(reads[i]) < ReadRank(reads[j])

\* C17 amended: _extract_content reads the title, the body text and the
\* markup first, in that order, and then runs the meta, image and heading
\* extractions in that order; a complete extraction issued all six reads.
C17_TextThenMetaImagesHeadings ==
    /\ Len(reads) <= 6
    /\ \A i \in 1..Len(reads) : ReadRank(reads[i]) = i - 1
    /\ pc = "close" => Len(reads) = 6
    /\ meta # {} => Len(reads) >= 4
    /\ images # <<>> => Len(reads) >= 5
    /\ headings # {} => Len(reads) = 6

\* C17 witness: a complete extraction that found meta tags, images and
\* headings.
C17_Witness ==
    /\ pc = "close"
    /\ reads = <<"title", "body", "content", "og", "img", "h6">>
    /\ meta # {}
    /\ images # <<>>
    /\ headings # {}

\* C18: the position is the step count times the viewport height, the step
\* count stays within max_scrolls, the tracked height is the maximum of the
\* heights measured so far and never decreases while the trigger runs, and
\* each position the loop scrolls to lies strictly below the tracked height.
LoopInvariant ==
    /\ current_position = scroll_count * viewport_height
    /\ scroll_count <= max_scrolls
    /\ InTrigger => total_height = maxMeasured
    /\ \A p \in visited : p < total_height
    /\ pc = "loop_sleep" => (scrollY = current_position /\ scrollY < total_height)
    /\ InTrigger => visited = {k * viewport_height : k \in 0..(iterations - 1)}

C18_LoopInvariant ==
    /\ []LoopInvariant
    /\ [][(InTrigger /\ InTrigger') => total_height' >= total_height]_vars

\* C18 witness: a re-measurement is due after the page grew and two
\* positions were scrolled to.
C18_Witness ==
    /\ pc = "loop_measure"
    /\ grew
    /\ scroll_count >= 2
    /\ current_position = scroll_count * viewport_height
    /\ Cardinality(visited) >= 2

\* C19: when every measurement of the trigger returned the same height H,
\* the loop runs exactly min(max_scrolls, ceil(H / V)) iterations, none when
\* H = 0, and the run issues exactly one more scroll, to position 0.
C19_IterationCount ==
    /\ (InTrigger /\ ~LoopLeft /\ steady) =>
          iterations <= Min(max_scrolls, CeilDiv(maxMeasured, viewport_height))
    /\ (LoopLeft /\ steady) =>
          /\ iterations = Min(max_scrolls, CeilDiv(maxMeasured, viewport_height))
          /\ maxMeasured = 0 => iterations = 0
          /\ scrolls = iterations + 1
          /\ scrollY = 0
    /\ idle # "none" => scrolls = iterations + 1

\* C19 witness: a page of constant height 5 under a viewport of height 2:
\* three iterations and the scroll back to the top.
C19_Witness ==
    /\ pc = "sleep_top"
    /\ steady
    /\ viewport_height = 2
    /\ maxMeasured = 5
    /\ iterations = 3
    /\ scrolls = 4

====
